---- MODULE Spec2Model ----
(***************************************************************************)
(* Staged trading-signal state machine of app.py: analyze_strategy walks   *)
(* a daily close series row by row and keeps a stage (0..7), a position    *)
(* and two run-length counters; generate_prediction reads the last record  *)
(* of the result.                                                          *)
(*                                                                         *)
(* The strings of the source are written in ASCII here:                    *)
(*   "red" = hong (close rose), "green" = lv (close fell), "flat" = ping   *)
(*   "buy" = mairu, "sell" = maichu, "hold" = chiyou, "empty" = kongcang   *)
(* The local entry_price of analyze_strategy is assigned on every buy and  *)
(* never read or put into a record, so it has no counterpart here.         *)
(***************************************************************************)
EXTENDS Integers, Sequences, FiniteSets, TLC

\* ---- bounds of the model ----
\* longest series fed to analyze_strategy (stage 7 needs 50 rows)
MaxRows == 52
\* the trailing-run observers stop counting here
RunCap == 14
\* calls of analyze_strategy that are told apart
MaxCalls == 2
\* most stocks in the universe of one scan
MaxStocks == 3
\* most threads of the worker pool
MaxWorkers == 2
\* most rows of the frame given to check_three_level_continuous_yang
MaxDays == 7
\* most buyers of a stock that are core seats, and most that are attention seats
MaxSeats == 2

VARIABLES
    pc,            \* where the caller is: idle, loop, returned, predicted, raised, processed
    numeric,       \* the close column of df holds numbers
    position,      \* app.py:81  None or hold
    day_count,     \* app.py:83
    red_count,     \* app.py:84
    green_count,   \* app.py:85
    stage,         \* app.py:86
    len_signals,   \* len(signals): the rows appended so far
    last_row,      \* the record appended last (result_df.iloc[-1])
    prediction,    \* the dict generate_prediction returned
    dates_ok,      \* observer: the dates fed so far are strictly increasing
    up_run,        \* observer: trailing run of red rows in the fed series
    down_run,      \* observer: trailing run of green rows in the fed series
    await_run,     \* observer: run of the awaited colour since the stage was entered
    run_before,    \* observer: await_run as it was before the last row
    seen_up3,      \* observer: 3 red rows in a row occurred strictly after row 14
    shape30,       \* observer: the rows fed so far follow the 30-day synthetic series
    twin,          \* a fresh run of analyze_strategy stepped over the same rows
    calls,         \* observer: calls of analyze_strategy so far (stops at MaxCalls)
    n_sig,         \* observer: buy and sell signals emitted so far in this run
    last_sig,      \* observer: the buy or sell emitted most recently in this run
    prog,          \* which scan runs: "app" (app.py:384-506) or "yz" (yz.py:210-264)
    spc,           \* where the main thread of the scan is
    total_stocks,  \* app.py:406 total_stocks / yz.py:230 total
    max_workers,   \* app.py:415 thread_count / yz.py:225 num_workers
    task,          \* per stock, the state of its future: none, queued, running, done
    ret,           \* per stock, what its future holds: unset, None, rec or raise
    fate,          \* observer: per stock, what happened inside its evaluator
    yielded,       \* the futures as_completed has handed out
    cur,           \* the stock of the future the loop body is working on (0: none)
    completed,     \* app.py:412 completed / yz.py:237 i + 1, the count shown
    results,       \* app.py:411 / yz.py:221 the list of results, a stock per record
    lock,          \* app.py:413 the lock is held
    shown,         \* what the page reports at the end of the scan
    cause,         \* observer: why the scan left its loop by an exception
    ypc,           \* where process_stock is with the frame: feed or checked
    df,            \* the daily change column of the frame, in whole percent
    verdict,       \* what check_three_level_continuous_yang returned
    ps_ret,        \* what process_stock does after the check (yz.py:145-146)
    via,           \* who called analyze_strategy: "direct" or process_single_stock ("scan")
    df_stock,      \* app.py:315  what get_stock_data returned, as line 317 sees it
    filter_signal, \* the parameter filter_signal as app.py:329 reads it ("" before)
    row_out,       \* what process_single_stock returned
    older,         \* rows of the fetched frame before the ones kept in df
    seats,         \* how many buyers of the stock are core and attention seats
    level,         \* yz.py:153  what get_youzi_level returned
    score          \* yz.py:158  the score is_youzi_pattern returned

\* the variables of analyze_strategy / generate_prediction
stratVars == <<pc, numeric, position, day_count, red_count, green_count, stage,
               len_signals, last_row, prediction, dates_ok, up_run, down_run,
               await_run, run_before, seen_up3, shape30, twin, calls,
               n_sig, last_sig>>

\* the variables of the scan over the universe of stocks
scanVars == <<prog, spc, total_stocks, max_workers, task, ret, fate, yielded,
              cur, completed, results, lock, shown, cause>>

\* the variables of the run-gain filter of yz.py
yangVars == <<ypc, df, verdict, ps_ret>>

\* the variables of process_single_stock around analyze_strategy
stockVars == <<via, df_stock, filter_signal, row_out>>

\* the further variables of process_stock of yz.py
scoreVars == <<older, seats, level, score>>

vars == <<stratVars, scanVars, yangVars, stockVars, scoreVars>>

\* ---- values ----
NoneVal == "None"
Hold == "hold"
Empty == "empty"
Red == "red"
Green == "green"
Flat == "flat"
Buy == "buy"
Sell == "sell"
NoSignal == ""

\* df[close].diff(): <<>> is NaN (first row, or a missing close), <<v>> a number
NaN == <<>>
Diffs == {NaN, <<-1>>, <<0>>, <<1>>}

Min(a, b) == IF a < b THEN a ELSE b
Max(a, b) == IF a > b THEN a ELSE b

\* app.py:78  the lambda of the red/green column; a comparison with NaN is False
RedGreen(x) ==
    IF x # NaN /\ x[1] > 0 THEN Red
    ELSE IF x # NaN /\ x[1] < 0 THEN Green
    ELSE Flat

\* variant of InitLocals: green_count is kept from the call before
InitLocals_Stale ==
    [position |-> NoneVal, day_count |-> 0, red_count |-> 0,
     green_count |-> green_count, stage |-> 0]

\* app.py:80-86  the locals before the first row
InitLocals ==
    [position |-> NoneVal, day_count |-> 0, red_count |-> 0,
     green_count |-> 0, stage |-> 0]

\* the locals as one record, plus the signal of the row (app.py:89)
Locals ==
    [position |-> position, day_count |-> day_count, red_count |-> red_count,
     green_count |-> green_count, stage |-> stage]

WithSignal(s, sig) == [loc |-> s, signal |-> sig]

\* variant of Stage0: the first buy comes a row early
Stage0_Early(s) ==
    LET d == s.day_count + 1 IN
    IF d >= 13
    THEN WithSignal([s EXCEPT !.day_count = d, !.position = Hold,
                              !.stage = 1, !.red_count = 0], Buy)
    ELSE WithSignal([s EXCEPT !.day_count = d], NoSignal)

\* variant of Stage0: the first buy comes once more than 14 rows were counted
Stage0_Late(s) ==
    LET d == s.day_count + 1 IN
    IF d > 14
    THEN WithSignal([s EXCEPT !.day_count = d, !.position = Hold,
                              !.stage = 1, !.red_count = 0], Buy)
    ELSE WithSignal([s EXCEPT !.day_count = d], NoSignal)

\* app.py:91-98
Stage0(s) ==
    LET d == s.day_count + 1 IN
    IF d >= 14
    THEN WithSignal([s EXCEPT !.day_count = d, !.position = Hold,
                              !.stage = 1, !.red_count = 0], Buy)
    ELSE WithSignal([s EXCEPT !.day_count = d], NoSignal)

\* variant of Stage1: a row that is not red does not restart the count
Stage1_NoReset(s, color) ==
    IF color = Red
    THEN LET r == s.red_count + 1 IN
         IF r >= 3
         THEN WithSignal([s EXCEPT !.red_count = r, !.position = NoneVal,
                                   !.stage = 2, !.green_count = 0], Sell)
         ELSE WithSignal([s EXCEPT !.red_count = r], NoSignal)
    ELSE WithSignal(s, NoSignal)

\* app.py:100-109
Stage1(s, color) ==
    IF color = Red
    THEN LET r == s.red_count + 1 IN
         IF r >= 3
         THEN WithSignal([s EXCEPT !.red_count = r, !.position = NoneVal,
                                   !.stage = 2, !.green_count = 0], Sell)
         ELSE WithSignal([s EXCEPT !.red_count = r], NoSignal)
    ELSE WithSignal([s EXCEPT !.red_count = 0], NoSignal)

\* variant of Stage2: 3 green rows are asked for
Stage2_Three(s, color) ==
    IF color = Green
    THEN LET g == s.green_count + 1 IN
         IF g >= 3
         THEN WithSignal([s EXCEPT !.green_count = g, !.position = Hold,
                                   !.stage = 3, !.red_count = 0], Buy)
         ELSE WithSignal([s EXCEPT !.green_count = g], NoSignal)
    ELSE WithSignal([s EXCEPT !.green_count = 0], NoSignal)

\* app.py:111-121
Stage2(s, color) ==
    IF color = Green
    THEN LET g == s.green_count + 1 IN
         IF g >= 2
         THEN WithSignal([s EXCEPT !.green_count = g, !.position = Hold,
                                   !.stage = 3, !.red_count = 0], Buy)
         ELSE WithSignal([s EXCEPT !.green_count = g], NoSignal)
    ELSE WithSignal([s EXCEPT !.green_count = 0], NoSignal)

\* variant of Stage3: the sell moves to stage 4 but keeps the position
Stage3_KeepsPosition(s, color) ==
    IF color = Red
    THEN LET r == s.red_count + 1 IN
         IF r >= 3
         THEN WithSignal([s EXCEPT !.red_count = r,
                                   !.stage = 4, !.green_count = 0], Sell)
         ELSE WithSignal([s EXCEPT !.red_count = r], NoSignal)
    ELSE WithSignal([s EXCEPT !.red_count = 0], NoSignal)

\* app.py:123-132
Stage3(s, color) ==
    IF color = Red
    THEN LET r == s.red_count + 1 IN
         IF r >= 3
         THEN WithSignal([s EXCEPT !.red_count = r, !.position = NoneVal,
                                   !.stage = 4, !.green_count = 0], Sell)
         ELSE WithSignal([s EXCEPT !.red_count = r], NoSignal)
    ELSE WithSignal([s EXCEPT !.red_count = 0], NoSignal)

\* variant of Stage4: only a red row restarts the count, a flat row does not
Stage4_FlatKeeps(s, color) ==
    IF color = Green
    THEN LET g == s.green_count + 1 IN
         IF g >= 7
         THEN WithSignal([s EXCEPT !.green_count = g, !.position = Hold,
                                   !.stage = 5, !.red_count = 0], Buy)
         ELSE WithSignal([s EXCEPT !.green_count = g], NoSignal)
    ELSE IF color = Red
    THEN WithSignal([s EXCEPT !.green_count = 0], NoSignal)
    ELSE WithSignal(s, NoSignal)

\* app.py:134-144
Stage4(s, color) ==
    IF color = Green
    THEN LET g == s.green_count + 1 IN
         IF g >= 7
         THEN WithSignal([s EXCEPT !.green_count = g, !.position = Hold,
                                   !.stage = 5, !.red_count = 0], Buy)
         ELSE WithSignal([s EXCEPT !.green_count = g], NoSignal)
    ELSE WithSignal([s EXCEPT !.green_count = 0], NoSignal)

\* variant of Stage5: the sell waits for one red row more than 7
Stage5_FiresLate(s, color) ==
    IF color = Red
    THEN LET r == s.red_count + 1 IN
         IF r > 7
         THEN WithSignal([s EXCEPT !.red_count = r, !.position = NoneVal,
                                   !.stage = 6, !.green_count = 0], Sell)
         ELSE WithSignal([s EXCEPT !.red_count = r], NoSignal)
    ELSE WithSignal([s EXCEPT !.red_count = 0], NoSignal)

\* variant of Stage5: one shared reset, a row that is not red clears both counts
Stage5_ResetsBoth(s, color) ==
    IF color = Red
    THEN LET r == s.red_count + 1 IN
         IF r >= 7
         THEN WithSignal([s EXCEPT !.red_count = r, !.position = NoneVal,
                                   !.stage = 6, !.green_count = 0], Sell)
         ELSE WithSignal([s EXCEPT !.red_count = r], NoSignal)
    ELSE WithSignal([s EXCEPT !.red_count = 0, !.green_count = 0], NoSignal)

\* app.py:146-155
Stage5(s, color) ==
    IF color = Red
    THEN LET r == s.red_count + 1 IN
         IF r >= 7
         THEN WithSignal([s EXCEPT !.red_count = r, !.position = NoneVal,
                                   !.stage = 6, !.green_count = 0], Sell)
         ELSE WithSignal([s EXCEPT !.red_count = r], NoSignal)
    ELSE WithSignal([s EXCEPT !.red_count = 0], NoSignal)

\* variant of Stage6: the last buy is taken without being recorded as a signal
Stage6_SkipsSignal(s, color) ==
    IF color = Green
    THEN LET g == s.green_count + 1 IN
         IF g >= 14
         THEN WithSignal([s EXCEPT !.green_count = g, !.position = Hold,
                                   !.stage = 7], NoSignal)
         ELSE WithSignal([s EXCEPT !.green_count = g], NoSignal)
    ELSE WithSignal([s EXCEPT !.green_count = 0], NoSignal)

\* app.py:157-166  (the last buy leaves red_count alone)
Stage6(s, color) ==
    IF color = Green
    THEN LET g == s.green_count + 1 IN
         IF g >= 14
         THEN WithSignal([s EXCEPT !.green_count = g, !.position = Hold,
                                   !.stage = 7], Buy)
         ELSE WithSignal([s EXCEPT !.green_count = g], NoSignal)
    ELSE WithSignal([s EXCEPT !.green_count = 0], NoSignal)

\* variant of LoopBody: red rows are already counted while stage 0 waits
LoopBody_CountsEarly(s, color) ==
    IF s.stage = 0
    THEN LET r == s.red_count + 1
             d == s.day_count + 1
             c == IF color = Red THEN r ELSE 0
         IN  IF d >= 14
             THEN WithSignal([s EXCEPT !.day_count = d, !.position = Hold,
                                       !.stage = 1, !.red_count = c], Buy)
             ELSE WithSignal([s EXCEPT !.day_count = d, !.red_count = c], NoSignal)
    ELSE IF s.stage = 1 /\ s.position = Hold THEN Stage1(s, color)
    ELSE IF s.stage = 2 /\ s.position = NoneVal THEN Stage2(s, color)
    ELSE IF s.stage = 3 /\ s.position = Hold THEN Stage3(s, color)
    ELSE IF s.stage = 4 /\ s.position = NoneVal THEN Stage4(s, color)
    ELSE IF s.stage = 5 /\ s.position = Hold THEN Stage5(s, color)
    ELSE IF s.stage = 6 /\ s.position = NoneVal THEN Stage6(s, color)
    ELSE WithSignal(s, NoSignal)

\* variant of LoopBody: after the last buy the cycle goes on with a 14-red exit
LoopBody_Stage7Exits(s, color) ==
    IF s.stage = 0 THEN Stage0(s)
    ELSE IF s.stage = 1 /\ s.position = Hold THEN Stage1(s, color)
    ELSE IF s.stage = 2 /\ s.position = NoneVal THEN Stage2(s, color)
    ELSE IF s.stage = 3 /\ s.position = Hold THEN Stage3(s, color)
    ELSE IF s.stage = 4 /\ s.position = NoneVal THEN Stage4(s, color)
    ELSE IF s.stage = 5 /\ s.position = Hold THEN Stage5(s, color)
    ELSE IF s.stage = 6 /\ s.position = NoneVal THEN Stage6(s, color)
    ELSE IF s.stage = 7 /\ s.position = Hold /\ color = Red
    THEN WithSignal([s EXCEPT !.position = NoneVal], Sell)
    ELSE WithSignal(s, NoSignal)

\* app.py:89-166  one pass of the loop body: the if/elif chain on stage and position
LoopBody(s, color) ==
    IF s.stage = 0 THEN Stage0(s)
    ELSE IF s.stage = 1 /\ s.position = Hold THEN Stage1(s, color)
    ELSE IF s.stage = 2 /\ s.position = NoneVal THEN Stage2(s, color)
    ELSE IF s.stage = 3 /\ s.position = Hold THEN Stage3(s, color)
    ELSE IF s.stage = 4 /\ s.position = NoneVal THEN Stage4(s, color)
    ELSE IF s.stage = 5 /\ s.position = Hold THEN Stage5(s, color)
    ELSE IF s.stage = 6 /\ s.position = NoneVal THEN Stage6(s, color)
    ELSE WithSignal(s, NoSignal)

\* app.py:168-177  the record appended for the row (date and close left out)
SignalRecord(r, color) ==
    [color |-> color,
     signal |-> r.signal,
     position |-> IF r.loc.position = NoneVal THEN Empty ELSE r.loc.position,
     stage |-> r.loc.stage,
     red_count |-> r.loc.red_count,
     green_count |-> r.loc.green_count]

NoRow == [color |-> Flat, signal |-> NoSignal, position |-> Empty, stage |-> 0,
          red_count |-> 0, green_count |-> 0]

NoPrediction == [stage |-> 0, position |-> "", action |-> "", next_signal |-> "",
                 countdown |-> 0, risk_level |-> ""]

\* a run that nothing preceded: the locals and the record before its first row
NoTwin ==
    [loc |-> [position |-> NoneVal, day_count |-> 0, red_count |-> 0,
              green_count |-> 0, stage |-> 0],
     last_row |-> NoRow]

\* app.py:209-222 and 239-252  stages 1 and 3: hold until 3 red rows
\* (action: "keep" = jixu chiyou; risk: "mid" = zhong, "low" = di)
PredictSell3(p, red, color) ==
    IF color = Red
    THEN [p EXCEPT !.action = "keep", !.next_signal = Sell,
                   !.countdown = 3 - red,
                   !.risk_level = IF red >= 2 THEN "mid" ELSE "low"]
    ELSE [p EXCEPT !.action = "keep", !.next_signal = Sell,
                   !.countdown = 3, !.risk_level = "low"]

\* app.py:224-237  stage 2: wait for 2 green rows
\* (action: "ready" = zhunbei mairu, "wait_dip" = dengdai huitiao)
PredictBuy2(p, green, color) ==
    IF color = Green
    THEN [p EXCEPT !.action = "ready", !.next_signal = Buy,
                   !.countdown = 2 - green, !.risk_level = "low"]
    ELSE [p EXCEPT !.action = "wait_dip", !.next_signal = Buy,
                   !.countdown = 2, !.risk_level = "low"]

\* app.py:254-267  stage 4: wait for 7 green rows
PredictBuy7(p, green, color) ==
    IF color = Green
    THEN [p EXCEPT !.action = "ready", !.next_signal = Buy,
                   !.countdown = 7 - green, !.risk_level = "low"]
    ELSE [p EXCEPT !.action = "wait_dip", !.next_signal = Buy,
                   !.countdown = 7, !.risk_level = "low"]

\* app.py:269-282  stage 5: hold until 7 red rows ("high" = gao)
PredictSell7(p, red, color) ==
    IF color = Red
    THEN [p EXCEPT !.action = "keep", !.next_signal = Sell,
                   !.countdown = 7 - red,
                   !.risk_level = IF red >= 5 THEN "high" ELSE "mid"]
    ELSE [p EXCEPT !.action = "keep", !.next_signal = Sell,
                   !.countdown = 7, !.risk_level = "mid"]

\* variant of PredictBuy14: the 7 of stage 4 is left in the subtraction
PredictBuy14_Copy7(p, green, color) ==
    IF color = Green
    THEN [p EXCEPT !.action = "ready", !.next_signal = "last_buy",
                   !.countdown = 7 - green, !.risk_level = "low"]
    ELSE [p EXCEPT !.action = "wait_dip", !.next_signal = "last_buy",
                   !.countdown = 14, !.risk_level = "low"]

\* app.py:284-297  stage 6: wait for 14 green rows ("last_buy" = zuihou mairu)
PredictBuy14(p, green, color) ==
    IF color = Green
    THEN [p EXCEPT !.action = "ready", !.next_signal = "last_buy",
                   !.countdown = 14 - green, !.risk_level = "low"]
    ELSE [p EXCEPT !.action = "wait_dip", !.next_signal = "last_buy",
                   !.countdown = 14, !.risk_level = "low"]

\* app.py:181-306  generate_prediction on a frame of n records whose last one
\* is row (the reason text is left out; "first_buy" = shouci mairu,
\* "observe" = dengdai guancha, "none" = wu, "custom" = zidingyi)
GeneratePrediction(row, n) ==
    LET p == [stage |-> row.stage, position |-> row.position, action |-> "",
              next_signal |-> "", countdown |-> 0, risk_level |-> ""]
    IN
    IF row.stage = 0
    THEN [p EXCEPT !.action = "observe", !.next_signal = "first_buy",
                   !.countdown = Max(0, 14 - n), !.risk_level = "low"]
    ELSE IF row.stage = 1 /\ row.position = Hold
    THEN PredictSell3(p, row.red_count, row.color)
    ELSE IF row.stage = 2 /\ row.position = Empty
    THEN PredictBuy2(p, row.green_count, row.color)
    ELSE IF row.stage = 3 /\ row.position = Hold
    THEN PredictSell3(p, row.red_count, row.color)
    ELSE IF row.stage = 4 /\ row.position = Empty
    THEN PredictBuy7(p, row.green_count, row.color)
    ELSE IF row.stage = 5 /\ row.position = Hold
    THEN PredictSell7(p, row.red_count, row.color)
    ELSE IF row.stage = 6 /\ row.position = Empty
    THEN PredictBuy14(p, row.green_count, row.color)
    ELSE IF row.stage = 7
    THEN [p EXCEPT !.action = "hold", !.next_signal = "none",
                   !.countdown = 0, !.risk_level = "custom"]
    ELSE p

\* ---- what the stage is waiting for (sidebar rules, app.py:18-27) ----
Awaited(k) == IF k \in {1, 3, 5} THEN Red ELSE Green
Threshold(k) ==
    CASE k = 1 -> 3 [] k = 2 -> 2 [] k = 3 -> 3
      [] k = 4 -> 7 [] k = 5 -> 7 [] k = 6 -> 14 [] OTHER -> 0
Expected(k) == IF k \in {1, 3, 5} THEN Sell ELSE Buy

\* the shape of the 30-day synthetic series, row i having this colour
ShapeRow(i, color, run) ==
    /\ i <= 30
    /\ i <= 14 => color # Red
    /\ i \in 15..17 => color = Red
    /\ i \in 18..19 => color = Green
    /\ i >= 20 => run < 3

\* ---- the scan: values ----
Stocks == 1..MaxStocks
Universe == 1..total_stocks

\* what can happen inside the evaluator of one stock:
\*   match   - data fetched, analysed, passes the filter
\*   nomatch - data fetched, analysed, does not pass the filter
\*   nodata  - nothing (or too little) fetched
\*   exc     - an exception is raised inside the evaluator's try block
Outcomes == {"match", "nomatch", "nodata", "exc"}

\* variant of ProcessSingleStock: an exception of the try block is not caught
ProcessSingleStock_Reraises(outcome) ==
    IF outcome = "match" THEN "rec"
    ELSE IF outcome = "exc" THEN "raise"
    ELSE "None"

\* app.py:308-361  process_single_stock: the dict when the stock passes, None
\* when there is no data, when the filter says no, and (except: pass) when
\* anything raised
ProcessSingleStock(outcome) ==
    IF outcome = "match" THEN "rec" ELSE "None"

\* yz.py:125-173  process_stock: the dict when the score passes, None on every
\* early return and (except: pass) when anything raised
ProcessStock(outcome) ==
    IF outcome = "match" THEN "rec" ELSE "None"

\* the scan before the button is pressed
ScanIdle ==
    /\ prog = ""
    /\ spc = "idle"
    /\ total_stocks = 0
    /\ max_workers = 1
    /\ task = [i \in Stocks |-> "none"]
    /\ ret = [i \in Stocks |-> "unset"]
    /\ fate = [i \in Stocks |-> "pending"]
    /\ yielded = {}
    /\ cur = 0
    /\ completed = 0
    /\ results = <<>>
    /\ lock = FALSE
    /\ shown = ""
    /\ cause = ""

\* ---- the run-gain filter of yz.py: values ----
\* daily changes the frames are built from, in whole percent
Pcts == {0, 2, 5, 7, 10}

\* numbers up to 10^14 as <<hi, lo>>, standing for hi * 10^7 + lo
Limb == 10000000
MulSmall(n, k) ==
    LET l == n[2] * k IN <<n[1] * k + (l \div Limb), l % Limb>>
Greater(a, b) == a[1] > b[1] \/ (a[1] = b[1] /\ a[2] > b[2])

RECURSIVE TimesTen(_, _)
TimesTen(n, times) == IF times = 0 THEN n ELSE TimesTen(MulSmall(n, 10), times - 1)

\* yz.py:51  df.tail(k): the last k rows, all of them when there are fewer
LastRows(seq, k) ==
    IF Len(seq) <= k THEN seq ELSE SubSeq(seq, Len(seq) - k + 1, Len(seq))

\* yz.py:56  pct / 100 + 1, kept as the numerator over 100
Multiplier(pct) == pct + 100

\* yz.py:67  segment.prod(), as the product of the numerators
RECURSIVE Prod(_)
Prod(seg) ==
    IF seg = <<>> THEN <<0, 1>>
    ELSE MulSmall(Prod(LastRows(seg, Len(seg) - 1)), seg[1])

\* yz.py:66  all(x > 1.0 for x in segment)
AllYang(seg) == \A i \in 1..Len(seg) : seg[i] > 100

\* yz.py:67-68  cum_return > limit, the limit in thousandths:
\* prod / 100^L - 1 > cap / 1000  iff  prod > (1000 + cap) * 10^(2L - 3)
OverLimit(seg, cap) ==
    Greater(Prod(seg), TimesTen(<<0, 1000 + cap>>, 2 * Len(seg) - 3))

\* variant of YangPairs: the shortest run is looked at first
YangPairs_ShortestFirst ==
    <<[length |-> 5, limit |-> 150], [length |-> 6, limit |-> 200],
      [length |-> 7, limit |-> 250]>>

\* yz.py:62  the (length, limit) pairs in the order of the loop; 0.25, 0.20
\* and 0.15 in thousandths
YangPairs ==
    <<[length |-> 7, limit |-> 250], [length |-> 6, limit |-> 200],
      [length |-> 5, limit |-> 150]>>

\* yz.py:63-69  does the pair fire on these multipliers
Fires(multipliers, pair) ==
    /\ Len(multipliers) >= pair.length
    /\ LET segment == LastRows(multipliers, pair.length) IN
         AllYang(segment) /\ OverLimit(segment, pair.limit)

\* yz.py:39-71  check_three_level_continuous_yang: (passed, length that fired)
CheckThreeLevel(frame) ==
    IF Len(frame) < 5 THEN [pass |-> TRUE, fired |-> 0]
    ELSE LET recent == LastRows(frame, 10)
             multipliers == [i \in 1..Len(recent) |-> Multiplier(recent[i])]
             hits == {k \in 1..Len(YangPairs) : Fires(multipliers, YangPairs[k])}
         IN  IF hits = {} THEN [pass |-> TRUE, fired |-> 0]
             ELSE LET first == CHOOSE k \in hits : \A j \in hits : k <= j
                  IN  [pass |-> FALSE, fired |-> YangPairs[first].length]

\* the filter before a frame is built
YangIdle ==
    /\ ypc = "feed"
    /\ df = <<>>
    /\ verdict = [pass |-> TRUE, fired |-> 0]
    /\ ps_ret = "unset"

\* ---- process_stock of yz.py: values ----
\* yz.py:21  CONFIG["min_score"]
MinScore == 65

\* yz.py:140  the fewest rows of a frame process_stock goes on with
MinKline == 30

\* the 6 days before the latest one: a quiet stock, a stock that rose a little
\* every day, a stock that rose 7% every day
Histories ==
    {<<0, 0, 0, 0, 0, 0>>, <<2, 2, 2, 2, 2, 2>>, <<7, 7, 7, 7, 7, 7>>}

\* the turnover of the latest day, in whole percent
Turnovers == {14, 15, 24, 25}

\* yz.py:74-81  get_youzi_level, from the counts of core and attention seats
\* among the buyers ("core2" = hexin x2+, "att2" = guanzhu x2+,
\* "ordinary" = putong)
GetYouziLevel(core, att) ==
    IF core >= 2 THEN "core2"
    ELSE IF core >= 1 THEN "core"
    ELSE IF att >= 2 THEN "att2"
    ELSE IF att >= 1 THEN "att"
    ELSE "ordinary"

\* yz.py:88-90  the weight of the seats; "guanzhu" is part of both attention levels
SeatScore(youzi_level) ==
    IF youzi_level = "core2" THEN 35
    ELSE IF youzi_level = "core" THEN 25
    ELSE IF youzi_level \in {"att2", "att"} THEN 15
    ELSE 0

\* yz.py:94-95  the latest change: 9.5 or more is a limit-up, in tenths
PctScore(pct) == IF 10 * pct >= 95 THEN 20 ELSE IF pct >= 7 THEN 12 ELSE 0

\* yz.py:97-98
TurnoverScore(turnover) ==
    IF turnover >= 25 THEN 18 ELSE IF turnover >= 15 THEN 10 ELSE 0

\* variant of IsYouziPattern: every seat of the lists weighs as much as two
\* core seats
IsYouziPattern_FlatSeats(pct, turnover, youzi_level) ==
    (IF youzi_level = "ordinary" THEN 0 ELSE 35)
        + PctScore(pct) + TurnoverScore(turnover)

\* yz.py:83-100  is_youzi_pattern: the score
IsYouziPattern(pct, turnover, youzi_level) ==
    SeatScore(youzi_level) + PctScore(pct) + TurnoverScore(turnover)

\* process_stock before anything was counted
ScoreIdle ==
    /\ older = 0
    /\ seats = [core |-> 0, att |-> 0]
    /\ level = ""
    /\ score = 0

\* ---- process_single_stock: values ----
\* app.py:372-375  the five filters of the page: all, buy within 1-2 days,
\* sell within 1-2 days, holding now, empty now
Filters == {"all", "buy_soon", "sell_soon", "holding", "empty_now"}

\* app.py:317  the fewest rows a fetched frame must have
MinRows == 15

\* variant of EnoughRows: a frame of 14 rows, enough for the first buy, passes
EnoughRows_Fourteen(isnone, n) == ~isnone /\ n >= 14

\* app.py:317  df_stock is not None and len(df_stock) >= 15
EnoughRows(isnone, n) == ~isnone /\ n >= MinRows

\* app.py:58-61  the lengths get_stock_data can return, as far as line 317
\* tells them apart
FetchLens == 1..Max(MinRows, 1)

\* app.py:329-342  should_add
ShouldAdd(f, p) ==
    CASE f = "all" -> TRUE
      [] f = "buy_soon" ->
            p.next_signal \in {Buy, "first_buy", "last_buy"} /\ p.countdown <= 2
      [] f = "sell_soon" -> p.next_signal = Sell /\ p.countdown <= 2
      [] f = "holding" -> p.position = Hold
      [] f = "empty_now" -> p.position = Empty
      [] OTHER -> FALSE

\* app.py:352  f"{countdown}tian" if countdown > 0 else "yi wancheng" (done)
CountdownText(c) ==
    IF c > 0 THEN [text |-> "days", n |-> c] ELSE [text |-> "done", n |-> 0]

\* app.py:345-357  the dict of a stock that passed the filter
ScanRow(p) ==
    [kind |-> "rec", position |-> p.position, action |-> p.action,
     next_signal |-> p.next_signal, countdown |-> CountdownText(p.countdown),
     risk_level |-> p.risk_level, stage |-> p.stage]

\* app.py:361  return None, and the value before any call
NoOutput ==
    [kind |-> "None", position |-> "", action |-> "", next_signal |-> "",
     countdown |-> [text |-> "", n |-> 0], risk_level |-> "", stage |-> 0]

\* no frame has been fetched
NoFrame == [kind |-> "unset", n |-> 0]

\* process_single_stock before its first call
StockIdle ==
    /\ via = "direct"
    /\ df_stock = NoFrame
    /\ filter_signal = ""
    /\ row_out = NoOutput

\* analyze_strategy before its first call
StratIdle ==
    /\ pc = "idle"
    /\ numeric = TRUE
    /\ position = NoneVal
    /\ day_count = 0
    /\ red_count = 0
    /\ green_count = 0
    /\ stage = 0
    /\ len_signals = 0
    /\ last_row = NoRow
    /\ prediction = NoPrediction
    /\ dates_ok = TRUE
    /\ up_run = 0
    /\ down_run = 0
    /\ await_run = 0
    /\ run_before = 0
    /\ seen_up3 = FALSE
    /\ shape30 = TRUE
    /\ twin = NoTwin
    /\ calls = 0
    /\ n_sig = 0
    /\ last_sig = NoSignal

Init == StratIdle /\ ScanIdle /\ YangIdle /\ StockIdle /\ ScoreIdle

\* app.py:74-86  analyze_strategy is called on a frame; the diff of a column
\* of strings raises, otherwise the locals are set up and the loop starts
Call ==
    /\ pc \in {"idle", "returned", "predicted", "raised", "processed"}
    /\ \E num \in BOOLEAN :
         /\ numeric' = num
         /\ pc' = IF num THEN "loop" ELSE "raised"
    /\ position' = InitLocals.position
    /\ day_count' = InitLocals.day_count
    /\ red_count' = InitLocals.red_count
    /\ green_count' = InitLocals.green_count
    /\ stage' = InitLocals.stage
    /\ len_signals' = 0
    /\ last_row' = NoRow
    /\ prediction' = NoPrediction
    /\ dates_ok' = TRUE
    /\ up_run' = 0
    /\ down_run' = 0
    /\ await_run' = 0
    /\ run_before' = 0
    /\ seen_up3' = FALSE
    /\ shape30' = TRUE
    /\ twin' = NoTwin
    /\ calls' = Min(calls + 1, MaxCalls)
    /\ n_sig' = 0
    /\ last_sig' = NoSignal
    /\ via' = "direct"
    /\ df_stock' = NoFrame
    /\ row_out' = NoOutput
    /\ filter_signal' = ""
    /\ UNCHANGED <<scanVars, yangVars, scoreVars>>

\* app.py:88-177  one row of df.iterrows(): x is the row's diff, later says
\* whether its date is after the previous row's date (never looked at)
Row ==
    /\ pc = "loop"
    /\ len_signals < MaxRows
    /\ \E x \in Diffs, later \in BOOLEAN :
         /\ len_signals = 0 => x = NaN
         /\ LET color == RedGreen(x)
                r == LoopBody(Locals, color)
                t == LoopBody(twin.loc, color)
                i == len_signals + 1
                up == IF color = Red THEN Min(up_run + 1, RunCap) ELSE 0
            IN  /\ position' = r.loc.position
                /\ day_count' = r.loc.day_count
                /\ red_count' = r.loc.red_count
                /\ green_count' = r.loc.green_count
                /\ stage' = r.loc.stage
                /\ last_row' = SignalRecord(r, color)
                /\ len_signals' = i
                /\ twin' = [loc |-> t.loc, last_row |-> SignalRecord(t, color)]
                /\ dates_ok' = (dates_ok /\ (later \/ len_signals = 0))
                /\ up_run' = up
                /\ down_run' = IF color = Green THEN Min(down_run + 1, RunCap) ELSE 0
                /\ await_run' = IF r.loc.stage # stage THEN 0
                                ELSE IF color = Awaited(stage)
                                     THEN Min(await_run + 1, RunCap + 1)
                                     ELSE 0
                /\ run_before' = await_run
                /\ n_sig' = IF r.signal # NoSignal THEN n_sig + 1 ELSE n_sig
                /\ last_sig' = IF r.signal # NoSignal THEN r.signal ELSE last_sig
                /\ seen_up3' = (seen_up3 \/ Min(up, i - 14) >= 3)
                /\ shape30' = (shape30 /\ ShapeRow(i, color, up))
    /\ UNCHANGED <<pc, numeric, prediction, calls>>
    /\ UNCHANGED <<scanVars, yangVars, stockVars, scoreVars>>

\* app.py:179  the rows are exhausted and the frame of records is returned;
\* a frame that came through process_single_stock has a length line 317 let pass
Return ==
    /\ pc = "loop"
    /\ via = "scan" => EnoughRows(FALSE, len_signals)
    /\ pc' = "returned"
    /\ UNCHANGED <<numeric, position, day_count, red_count, green_count, stage,
                   len_signals, last_row, prediction, dates_ok, up_run, down_run,
                   await_run, run_before, seen_up3, shape30, twin, calls,
                   n_sig, last_sig>>
    /\ UNCHANGED <<scanVars, yangVars, stockVars, scoreVars>>

\* app.py:181-306  generate_prediction(result_df): iloc[-1] of an empty frame
\* raises IndexError, otherwise the dict is built from the last record
Predict ==
    /\ pc = "returned"
    /\ IF len_signals = 0
       THEN /\ pc' = "raised"
            /\ UNCHANGED prediction
       ELSE /\ pc' = "predicted"
            /\ prediction' = GeneratePrediction(last_row, len_signals)
    /\ UNCHANGED <<numeric, position, day_count, red_count, green_count, stage,
                   len_signals, last_row, dates_ok, up_run, down_run,
                   await_run, run_before, seen_up3, shape30, twin, calls,
                   n_sig, last_sig>>
    /\ UNCHANGED <<scanVars, yangVars, stockVars, scoreVars>>

\* app.py:308-319 and 358-361  process_single_stock fetches the frame of a
\* stock: get_stock_data returns None or the last rows of the history (1 or
\* more, app.py:58-61).  A frame that fails line 317 makes the function return
\* None at once.  A frame that passes is handed to analyze_strategy; which of
\* the lengths from MinRows on it has is settled when the rows run out
\* (Return), so the one length MinRows is drawn for all of them here; what
\* the path taken never reads (the length of None, the column type of a frame
\* that is not analysed) is drawn once
FetchStock ==
    /\ pc \in {"idle", "processed"}
    /\ \E isnone \in BOOLEAN, n \in FetchLens, num \in BOOLEAN :
         /\ isnone => (n = 1 /\ num)
         /\ ~EnoughRows(isnone, n) => num
         /\ filter_signal' = ""
         /\ via' = "scan"
         /\ row_out' = NoOutput
         /\ IF EnoughRows(isnone, n)
            THEN /\ df_stock' = [kind |-> "frame", n |-> 0]
                 /\ numeric' = num
                 /\ pc' = IF num THEN "loop" ELSE "raised"
                 /\ calls' = Min(calls + 1, MaxCalls)
            ELSE /\ df_stock' = IF isnone THEN [kind |-> "None", n |-> 0]
                                ELSE [kind |-> "short", n |-> n]
                 /\ pc' = "processed"
                 /\ UNCHANGED <<numeric, calls>>
    /\ position' = InitLocals.position
    /\ day_count' = InitLocals.day_count
    /\ red_count' = InitLocals.red_count
    /\ green_count' = InitLocals.green_count
    /\ stage' = InitLocals.stage
    /\ len_signals' = 0
    /\ last_row' = NoRow
    /\ prediction' = NoPrediction
    /\ dates_ok' = TRUE
    /\ up_run' = 0
    /\ down_run' = 0
    /\ await_run' = 0
    /\ run_before' = 0
    /\ seen_up3' = FALSE
    /\ shape30' = TRUE
    /\ twin' = NoTwin
    /\ n_sig' = 0
    /\ last_sig' = NoSignal
    /\ UNCHANGED <<scanVars, yangVars, scoreVars>>

\* app.py:322-361  process_single_stock after generate_prediction: the filter
\* decides whether the dict is returned; an exception raised on the way
\* (app.py:358-359, except: pass) ends in return None
FinishStock ==
    /\ via = "scan"
    /\ pc \in {"predicted", "raised"}
    /\ IF pc = "predicted"
       THEN \E f \in Filters :
              /\ filter_signal' = f
              /\ row_out' = IF ShouldAdd(f, prediction)
                            THEN ScanRow(prediction) ELSE NoOutput
       ELSE /\ row_out' = NoOutput
            /\ UNCHANGED filter_signal
    /\ pc' = "processed"
    /\ UNCHANGED <<numeric, position, day_count, red_count, green_count, stage,
                   len_signals, last_row, prediction, dates_ok, up_run, down_run,
                   await_run, run_before, seen_up3, shape30, twin, calls,
                   n_sig, last_sig>>
    /\ UNCHANGED <<via, df_stock>>
    /\ UNCHANGED <<scanVars, yangVars, scoreVars>>

Next == Call \/ Row \/ Return \/ Predict \/ FetchStock \/ FinishStock

Spec == Init /\ [][Next]_vars

\* ---- the scan: the worker pool ----
Running == {i \in Stocks : task[i] = "running"}
Queued == {i \in Stocks : task[i] = "queued"}
Submitted == {i \in Stocks : task[i] # "none"}
AllDone == \A i \in Universe : task[i] = "done"

\* the return value of the evaluator the running program submits
Evaluate(outcome) ==
    IF prog = "app" THEN ProcessSingleStock(outcome) ELSE ProcessStock(outcome)

\* app.py:384-413 / yz.py:210-223  the button is pressed: the list of stocks is
\* fetched (it may raise, it may be empty) and the counters are set up; yz.py
\* returns at once with a warning when the list is empty
StartScan ==
    /\ spc = "idle"
    /\ \E p \in {"app", "yz"}, n \in 0..MaxStocks, w \in 1..MaxWorkers,
          fetched \in BOOLEAN :
         /\ prog' = p
         /\ max_workers' = w
         /\ IF ~fetched
            THEN /\ spc' = "failed"
                 /\ shown' = "error"
                 /\ cause' = "listing"
                 /\ total_stocks' = 0
            ELSE IF p = "yz" /\ n = 0
            THEN /\ spc' = "returned"
                 /\ shown' = "no_list"
                 /\ cause' = ""
                 /\ total_stocks' = 0
            ELSE /\ spc' = IF n = 0 THEN "wait" ELSE "submit"
                 /\ shown' = ""
                 /\ cause' = ""
                 /\ total_stocks' = n
    /\ task' = [i \in Stocks |-> "none"]
    /\ ret' = [i \in Stocks |-> "unset"]
    /\ fate' = [i \in Stocks |-> "pending"]
    /\ yielded' = {}
    /\ cur' = 0
    /\ completed' = 0
    /\ results' = <<>>
    /\ lock' = FALSE
    /\ UNCHANGED <<stratVars, yangVars, stockVars, scoreVars>>

\* app.py:417-420 / yz.py:226-229  executor.submit for the next stock of the list
Submit ==
    /\ spc = "submit"
    /\ LET i == Cardinality(Submitted) + 1 IN
         /\ task' = [task EXCEPT ![i] = "queued"]
         /\ spc' = IF i = total_stocks THEN "wait" ELSE "submit"
    /\ UNCHANGED <<prog, total_stocks, max_workers, ret, fate, yielded, cur,
                   completed, results, lock, shown, cause>>
    /\ UNCHANGED <<stratVars, yangVars, stockVars, scoreVars>>

\* a free thread of the pool takes the oldest queued task
WorkerStart ==
    /\ Queued # {}
    /\ Cardinality(Running) < max_workers
    /\ LET i == CHOOSE j \in Queued : \A k \in Queued : j <= k IN
         task' = [task EXCEPT ![i] = "running"]
    /\ UNCHANGED <<prog, spc, total_stocks, max_workers, ret, fate, yielded,
                   cur, completed, results, lock, shown, cause>>
    /\ UNCHANGED <<stratVars, yangVars, stockVars, scoreVars>>

\* the evaluator of a running task returns (or raises) and its future is done
WorkerFinish ==
    /\ \E i \in Running, o \in Outcomes :
         /\ fate' = [fate EXCEPT ![i] = o]
         /\ ret' = [ret EXCEPT ![i] = Evaluate(o)]
         /\ task' = [task EXCEPT ![i] = "done"]
    /\ UNCHANGED <<prog, spc, total_stocks, max_workers, yielded, cur,
                   completed, results, lock, shown, cause>>
    /\ UNCHANGED <<stratVars, yangVars, stockVars, scoreVars>>

\* ---- the scan: the loop over as_completed in the main thread ----
\* app.py:423-429 / yz.py:232  as_completed hands out a finished future; app.py
\* counts it and shows the progress before it looks at the result
Take ==
    /\ spc = "wait"
    /\ \E i \in Universe :
         /\ task[i] = "done"
         /\ i \notin yielded
         /\ yielded' = yielded \cup {i}
         /\ cur' = i
    /\ completed' = IF prog = "app" THEN completed + 1 ELSE completed
    /\ spc' = "result"
    /\ UNCHANGED <<prog, total_stocks, max_workers, task, ret, fate, results,
                   lock, shown, cause>>
    /\ UNCHANGED <<stratVars, yangVars, stockVars, scoreVars>>

\* app.py:432-433 / yz.py:233-236  future.result(): an exception of the
\* evaluator is raised again here; None is skipped; yz.py appends at once
Result ==
    /\ spc = "result"
    /\ IF ret[cur] = "raise"
       THEN /\ spc' = "unwind"
            /\ cause' = "evaluator"
            /\ UNCHANGED <<results, cur>>
       ELSE IF prog = "app"
       THEN /\ spc' = IF ret[cur] = "None" THEN "wait" ELSE "lock"
            /\ cur' = IF ret[cur] = "None" THEN 0 ELSE cur
            /\ UNCHANGED <<results, cause>>
       ELSE /\ spc' = "progress"
            /\ results' = IF ret[cur] = "None" THEN results
                          ELSE Append(results, cur)
            /\ UNCHANGED <<cur, cause>>
    /\ UNCHANGED <<prog, total_stocks, max_workers, task, ret, fate, yielded,
                   completed, lock, shown>>
    /\ UNCHANGED <<stratVars, yangVars, stockVars, scoreVars>>

\* app.py:434  with lock: the lock is taken
Acquire ==
    /\ spc = "lock"
    /\ ~lock
    /\ lock' = TRUE
    /\ spc' = "append"
    /\ UNCHANGED <<prog, total_stocks, max_workers, task, ret, fate, yielded,
                   cur, completed, results, shown, cause>>
    /\ UNCHANGED <<stratVars, yangVars, stockVars, scoreVars>>

\* variant of AppendResult: the list is assigned anew instead of appended to
AppendResult_Overwrites ==
    /\ spc = "append"
    /\ results' = <<cur>>
    /\ lock' = FALSE
    /\ cur' = 0
    /\ spc' = "wait"
    /\ UNCHANGED <<prog, total_stocks, max_workers, task, ret, fate, yielded,
                   completed, shown, cause>>
    /\ UNCHANGED <<stratVars, yangVars, stockVars, scoreVars>>

\* app.py:435  results.append(result), and the lock is given back
AppendResult ==
    /\ spc = "append"
    /\ results' = Append(results, cur)
    /\ lock' = FALSE
    /\ cur' = 0
    /\ spc' = "wait"
    /\ UNCHANGED <<prog, total_stocks, max_workers, task, ret, fate, yielded,
                   completed, shown, cause>>
    /\ UNCHANGED <<stratVars, yangVars, stockVars, scoreVars>>

\* variant of Progress: the index i is shown instead of i + 1
Progress_Index ==
    /\ spc = "progress"
    /\ completed' = Cardinality(yielded) - 1
    /\ cur' = 0
    /\ spc' = "wait"
    /\ UNCHANGED <<prog, total_stocks, max_workers, task, ret, fate, yielded,
                   results, lock, shown, cause>>
    /\ UNCHANGED <<stratVars, yangVars, stockVars, scoreVars>>

\* yz.py:237-239  progress = (i + 1) / total, i being the index of the future
\* among those handed out
Progress ==
    /\ spc = "progress"
    /\ completed' = (Cardinality(yielded) - 1) + 1
    /\ cur' = 0
    /\ spc' = "wait"
    /\ UNCHANGED <<prog, total_stocks, max_workers, task, ret, fate, yielded,
                   results, lock, shown, cause>>
    /\ UNCHANGED <<stratVars, yangVars, stockVars, scoreVars>>

\* app.py:423 / yz.py:232  as_completed is exhausted; the with block is left
\* (every future is done by then)
LoopEnd ==
    /\ spc = "wait"
    /\ yielded = Universe
    /\ spc' = "report"
    /\ UNCHANGED <<prog, total_stocks, max_workers, task, ret, fate, yielded,
                   cur, completed, results, lock, shown, cause>>
    /\ UNCHANGED <<stratVars, yangVars, stockVars, scoreVars>>

\* app.py:437-501 / yz.py:241-258  the outcome is shown: the table when there
\* are results, otherwise a notice
Report ==
    /\ spc = "report"
    /\ shown' = IF Len(results) > 0 THEN "success"
                ELSE IF prog = "app" THEN "warning" ELSE "info"
    /\ spc' = "reported"
    /\ UNCHANGED <<prog, total_stocks, max_workers, task, ret, fate, yielded,
                   cur, completed, results, lock, cause>>
    /\ UNCHANGED <<stratVars, yangVars, stockVars, scoreVars>>

\* app.py:423-435 / yz.py:232-239  the run is stopped from outside while the
\* loop is at work: the page calls of the loop body raise
Interrupt ==
    /\ spc \in {"wait", "result", "progress"}
    /\ spc' = "unwind"
    /\ cause' = "interrupt"
    /\ UNCHANGED <<prog, total_stocks, max_workers, task, ret, fate, yielded,
                   cur, completed, results, lock, shown>>
    /\ UNCHANGED <<stratVars, yangVars, stockVars, scoreVars>>

\* app.py:415,503-506 / yz.py:225,260-264  the exception leaves the with block,
\* whose exit waits until every submitted task has run, and reaches the
\* handler, which shows an error and nothing of the results
Unwind ==
    /\ spc = "unwind"
    /\ AllDone
    /\ shown' = "error"
    /\ spc' = "failed"
    /\ UNCHANGED <<prog, total_stocks, max_workers, task, ret, fate, yielded,
                   cur, completed, results, lock, cause>>
    /\ UNCHANGED <<stratVars, yangVars, stockVars, scoreVars>>

ScanNext ==
    \/ StartScan \/ Submit \/ WorkerStart \/ WorkerFinish
    \/ Take \/ Result \/ Acquire \/ AppendResult \/ Progress
    \/ LoopEnd \/ Report \/ Interrupt \/ Unwind

ScanSpec == Init /\ [][ScanNext]_vars

\* ---- the run-gain filter of yz.py: steps ----
\* yz.py:139  one more day of the frame fetch_kline returns
AddDay ==
    /\ ypc = "feed"
    /\ Len(df) < MaxDays
    /\ \E p \in Pcts : df' = Append(df, p)
    /\ UNCHANGED <<ypc, verdict, ps_ret>>
    /\ UNCHANGED <<stratVars, scanVars, stockVars, scoreVars>>

\* yz.py:143-146  process_stock runs the filter and returns None when it fails
CheckYang ==
    /\ ypc = "feed"
    /\ LET v == CheckThreeLevel(df) IN
         /\ verdict' = v
         /\ ps_ret' = IF ~v.pass THEN "None" ELSE "goes_on"
    /\ ypc' = "checked"
    /\ UNCHANGED df
    /\ UNCHANGED <<stratVars, scanVars, stockVars, scoreVars>>

YangNext == AddDay \/ CheckYang

YangSpec == Init /\ [][YangNext]_vars

\* ---- process_stock of yz.py, from the fetch to the return ----
\* yz.py:125-141  the industry filter, then the frame: its last 7 days in df
\* and the count of the rows before them, which nothing below reads (the
\* run-gain filter reads the last 7 rows at most, the score the last one)
FetchKline ==
    /\ ypc = "feed" /\ df = <<>>
    /\ \E wanted \in BOOLEAN, empty \in BOOLEAN, o \in {0, MinKline},
          h \in Histories, p \in Pcts :
         LET frame == IF empty THEN <<>> ELSE Append(h, p)
             rows  == IF empty THEN 0 ELSE o + Len(frame)
         IN  /\ df' = frame
             /\ older' = IF empty THEN 0 ELSE o
             /\ IF ~wanted \/ rows = 0 \/ rows < MinKline
                THEN ps_ret' = "None" /\ ypc' = "returned"
                ELSE ps_ret' = "goes_on" /\ ypc' = "fetched"
    /\ UNCHANGED <<verdict, seats, level, score>>
    /\ UNCHANGED <<stratVars, scanVars, stockVars>>

\* yz.py:143-146  the run-gain filter on the fetched frame
YangFilter ==
    /\ ypc = "fetched"
    /\ LET v == CheckThreeLevel(df) IN
         /\ verdict' = v
         /\ IF ~v.pass
            THEN ps_ret' = "None" /\ ypc' = "returned"
            ELSE ps_ret' = "goes_on" /\ ypc' = "passed"
    /\ UNCHANGED <<df, scoreVars>>
    /\ UNCHANGED <<stratVars, scanVars, stockVars>>

\* yz.py:148-156 and 171-173  the rows of the stock on the day's list: the
\* call raises, or no row is the stock's, or its buyers are counted
Seats ==
    /\ ypc = "passed"
    /\ \E lhb \in {"raise", "empty", "rows"},
          core \in 0..MaxSeats, att \in 0..MaxSeats :
         IF lhb # "rows"
         THEN /\ core = 0 /\ att = 0
              /\ ps_ret' = "None" /\ ypc' = "returned"
              /\ UNCHANGED <<seats, level>>
         ELSE /\ seats' = [core |-> core, att |-> att]
              /\ level' = GetYouziLevel(core, att)
              /\ IF GetYouziLevel(core, att) = "ordinary"
                 THEN ps_ret' = "None" /\ ypc' = "returned"
                 ELSE ps_ret' = "goes_on" /\ ypc' = "levelled"
    /\ UNCHANGED <<df, verdict, older, score>>
    /\ UNCHANGED <<stratVars, scanVars, stockVars>>

\* yz.py:158-173  the score of the latest day and the return
Score ==
    /\ ypc = "levelled"
    /\ \E t \in Turnovers :
         LET sc == IsYouziPattern(df[Len(df)], t, level) IN
         /\ score' = sc
         /\ ps_ret' = IF sc >= MinScore THEN "rec" ELSE "None"
    /\ ypc' = "returned"
    /\ UNCHANGED <<df, verdict, older, seats, level>>
    /\ UNCHANGED <<stratVars, scanVars, stockVars>>

ScoreNext == FetchKline \/ YangFilter \/ Seats \/ Score

ScoreSpec == Init /\ [][ScoreNext]_vars

TypeOK ==
    /\ pc \in {"idle", "loop", "returned", "predicted", "raised", "processed"}
    /\ stage \in 0..7
    /\ position \in {NoneVal, Hold}
    /\ len_signals \in 0..MaxRows
\* ---- the series has been (partly) walked and its records exist ----
Walking == pc \in {"loop", "returned", "predicted"}

\* C1: a series of fewer than 14 rows gets no buy or sell on any row and every
\* record of it has stage 0 and an empty position.
C1_ShortSeriesStaysAtStage0 ==
    (Walking /\ len_signals >= 1 /\ len_signals < 14) =>
        /\ last_row.signal = NoSignal
        /\ last_row.stage = 0
        /\ last_row.position = Empty

\* a 13-row series, its last three rows rising, has been returned
C1_Witness ==
    pc = "returned" /\ len_signals = 13 /\ up_run >= 3

\* C2: the first signal is a buy on exactly the 14th row fed: rows 1-13 carry
\* no signal and stage 0, row 14 carries buy, hold and stage 1, whatever the
\* colours of the first 14 rows are.
C2_FirstBuyOnRow14 ==
    Walking =>
        /\ len_signals \in 1..13 =>
              (last_row.signal = NoSignal /\ last_row.stage = 0)
        /\ len_signals = 14 =>
              /\ last_row.signal = Buy
              /\ last_row.position = Hold
              /\ last_row.stage = 1
              /\ stage = 1 /\ position = Hold

\* row 14 has been appended after 13 rising rows (and, apart, after falling ones)
C2_Witness ==
    len_signals = 14 /\ up_run = 13 /\ last_row.signal = Buy

\* a row is appended by the loop
RowStep == pc = "loop" /\ pc' = "loop" /\ len_signals' = len_signals + 1

\* C3: in stages 1-6 the signal is emitted and the stage advances on exactly
\* the row where the run of the awaited colour, counted from the first row
\* after the stage was entered, reaches 3, 2, 3, 7, 7, 14; on every other row
\* the stage stays and no signal is emitted.
C3_SignalExactlyAtThreshold ==
    [][(RowStep /\ stage \in 1..6) =>
         LET reached == /\ last_row'.color = Awaited(stage)
                        /\ await_run + 1 = Threshold(stage)
         IN  IF reached
             THEN /\ stage' = stage + 1
                  /\ last_row'.stage = stage + 1
                  /\ last_row'.signal = Expected(stage)
             ELSE /\ stage' = stage
                  /\ last_row'.stage = stage
                  /\ last_row'.signal = NoSignal]_vars

\* the 14th falling row in a row has just ended stage 6
C3_Witness ==
    /\ pc = "loop" /\ stage = 7 /\ last_row.signal = Buy
    /\ run_before = 13 /\ down_run >= 14

\* C4: on the 30-row series (rows 1-14 flat or falling, 15-17 rising, 18-19
\* falling, no 3 rising rows in a row afterwards) the only signals are buy at
\* row 14, sell at row 17, buy at row 19, and the stage rises on those rows.
C4_SyntheticSeries ==
    (Walking /\ shape30 /\ len_signals >= 1) =>
        /\ last_row.signal =
              (CASE len_signals = 14 -> Buy
                 [] len_signals = 17 -> Sell
                 [] len_signals = 19 -> Buy
                 [] OTHER -> NoSignal)
        /\ last_row.stage =
              (IF len_signals < 14 THEN 0
               ELSE IF len_signals < 17 THEN 1
               ELSE IF len_signals < 19 THEN 2
               ELSE 3)

\* all 30 rows of such a series have been walked, the last two of them rising
C4_Witness ==
    pc = "returned" /\ shape30 /\ len_signals = 30 /\ up_run = 2

\* C5: red rows on or before row 14 never count toward the exit of stage 1:
\* while no 3 red rows in a row have occurred strictly after row 14, the
\* machine is in stage 1, has bought on row 14 only and has not sold.
C5_EarlyUpDaysDoNotCount ==
    (Walking /\ len_signals >= 14 /\ ~seen_up3) =>
        /\ stage = 1
        /\ last_row.stage = 1
        /\ last_row.signal # Sell
        /\ (last_row.signal = Buy) <=> (len_signals = 14)

\* rows 11..16 all rose (three of them up to row 14, two after it), no sell yet
C5_Witness ==
    /\ Walking /\ len_signals = 16 /\ up_run >= 6
    /\ stage = 1 /\ ~seen_up3

\* the counter a stage is waiting on
AwaitedCount(k, red, green) == IF Awaited(k) = Red THEN red ELSE green
Opposite(k) == IF Awaited(k) = Red THEN Green ELSE Red

\* C6: in stages 1-6 a flat row breaks the awaited run exactly as a row of the
\* opposite colour does: no signal, same stage, awaited counter back to 0, and
\* the locals after it are the ones the opposite colour would have left.
C6_FlatBreaksRun ==
    [][(RowStep /\ stage \in 1..6 /\ last_row'.color = Flat) =>
         /\ last_row'.signal = NoSignal
         /\ stage' = stage
         /\ AwaitedCount(stage, red_count', green_count') = 0
         /\ AwaitedCount(stage, last_row'.red_count, last_row'.green_count) = 0
         /\ await_run' = 0
         /\ LET o == LoopBody(Locals, Opposite(stage))
            IN  /\ o.signal = NoSignal
                /\ o.loc = Locals']_vars

\* a flat row has just cut a run of 6 falling rows in stage 4
C6_Witness ==
    /\ pc = "loop" /\ stage = 4 /\ last_row.color = Flat
    /\ run_before = 6 /\ green_count = 0

\* C7: stage 7 is absorbing: every record after the one that reached stage 7
\* has stage 7, position hold and no signal.
C7_Stage7Absorbing ==
    [][(RowStep /\ stage = 7) =>
         /\ stage' = 7
         /\ position' = Hold
         /\ last_row'.stage = 7
         /\ last_row'.position = Hold
         /\ last_row'.signal = NoSignal]_vars

\* a rising row has been appended after stage 7 was reached
C7_Witness ==
    /\ Walking /\ stage = 7 /\ len_signals > 50
    /\ last_row.signal = NoSignal /\ last_row.color = Red

\* C8: a run of analyze_strategy, whatever an earlier run left behind, gives
\* on every row the record (signal, position, stage, counters) and the locals
\* that a fresh run stepped over the same rows gives.
C8_SameAsFreshRun ==
    Walking =>
        /\ twin.loc = Locals
        /\ twin.last_row = last_row

\* a second call, following an earlier one, is in stage 3
C8_Witness ==
    pc = "loop" /\ calls = 2 /\ stage = 3 /\ len_signals >= 19

\* C9: malformed input (no rows, dates not increasing, closes that are not
\* numbers) ends in an error and no sequence of records is returned.
C9_MalformedInputIsRejected ==
    pc \in {"returned", "predicted"} =>
        (len_signals > 0 /\ dates_ok /\ numeric)

\* C10: for a last record in stage 1-6 the countdown is the threshold minus
\* the current run of the awaited colour when the last row has that colour,
\* and the whole threshold otherwise (thresholds 3, 2, 3, 7, 7, 14).
C10_Countdown ==
    (pc = "predicted" /\ last_row.stage \in 1..6) =>
        prediction.countdown =
            (IF last_row.color = Awaited(last_row.stage)
             THEN Threshold(last_row.stage) - await_run
             ELSE Threshold(last_row.stage))

\* a series ending on the 5th falling row in a row of stage 4 has been predicted
C10_Witness ==
    /\ pc = "predicted" /\ last_row.stage = 4 /\ last_row.color = Green
    /\ await_run = 5 /\ prediction.countdown = 2
\* ---- the scan: what the claims speak of ----
InResults(i) == \E k \in 1..Len(results) : results[k] = i
Raised == {i \in Stocks : fate[i] = "exc"}
Failures == {i \in Stocks : fate[i] \in {"nodata", "exc"}}
NonNull == {i \in Stocks : ret[i] = "rec"}
ScanEnded == spc \in {"reported", "returned", "failed"}

\* C11: a failure inside the evaluator of one stock (no data, an exception)
\* gives no result for that stock only: the scan is never aborted by it, every
\* submitted stock is still evaluated and the results of the others are
\* collected.
C11_FailureIsLocal ==
    /\ \A i \in Failures : ret[i] = "None"
    /\ cause # "evaluator"
    /\ spc \in {"report", "reported"} =>
          /\ Submitted = Universe
          /\ \A i \in Universe : task[i] = "done" /\ fate[i] # "pending"
          /\ \A i \in Universe : InResults(i) <=> fate[i] = "match"

\* a scan of 3 stocks has ended: one evaluator raised, one had no data, the
\* third stock was collected
C11_Witness ==
    /\ spc = "reported" /\ prog = "app" /\ total_stocks = 3
    /\ fate[1] = "exc" /\ fate[2] = "nodata" /\ fate[3] = "match"
    /\ results = <<3>> /\ shown = "success"
\* the scan keeps no count of failures; what it shows is len(results) and
\* total_stocks (app.py:445), so the stocks it reports no result for are
NoResultCount == total_stocks - Len(results)

\* C12: with N stocks of which k evaluators raise, the scan ends with at most
\* N-k collected results, a failure counter equal to k and a submitted count
\* equal to N.
C12_FailureCounter ==
    spc = "reported" =>
        /\ Len(results) <= total_stocks - Cardinality(Raised)
        /\ NoResultCount = Cardinality(Raised)
        /\ Cardinality(Submitted) = total_stocks
\* C13: the progress count rises by exactly 1 for each stock that finishes, in
\* whatever order the stocks complete, never falls and never exceeds the
\* total; when the scan ends it equals the number of submitted stocks.
C13_ProgressCounts ==
    /\ [](/\ completed <= total_stocks
          /\ completed <= Cardinality(yielded)
          /\ Cardinality(yielded) <= completed + 1
          /\ spc \in {"wait", "report", "reported"} =>
                completed = Cardinality(yielded)
          /\ spc \in {"report", "reported"} =>
                /\ completed = total_stocks
                /\ completed = Cardinality(Submitted))
    /\ [][/\ completed' \in {completed, completed + 1}
          /\ (spc = "wait" /\ spc' = "wait") => completed' = completed]_vars

\* a yz scan of 3 stocks has ended with the count at 3, the stock submitted
\* last having been handed out first
C13_Witness ==
    /\ spc = "reported" /\ prog = "yz" /\ total_stocks = 3 /\ completed = 3
    /\ Len(results) = 3 /\ results[1] = 3
\* C14: the list of results has one writer at a time and is append-only: under
\* every interleaving of the workers no two appends overlap, no result is lost
\* or duplicated, and at the end of the scan the list holds exactly one record
\* per stock whose evaluator returned a result that is not None.
C14_SingleWriterAppendOnly ==
    /\ [](/\ lock => (prog = "app" /\ spc = "append")
          /\ \A k, l \in 1..Len(results) :
                results[k] = results[l] => k = l
          /\ \A k \in 1..Len(results) :
                results[k] \in yielded /\ ret[results[k]] = "rec"
          /\ \A i \in yielded :
                (ret[i] = "rec" /\ i # cur) => InResults(i)
          /\ spc \in {"report", "reported"} =>
                /\ \A i \in Universe : InResults(i) <=> i \in NonNull
                /\ Len(results) = Cardinality(NonNull))
    /\ [][results' # results =>
            /\ results' = Append(results, cur)
            /\ spc \in {"append", "result"}
            /\ prog = "app" => (lock /\ ~lock')]_vars

\* an app scan of 3 stocks has ended; the results of stocks 3 and 1 were
\* appended in that order, stock 2 returned None
C14_Witness ==
    /\ spc = "reported" /\ prog = "app" /\ max_workers = 2
    /\ total_stocks = 3 /\ results = <<3, 1>> /\ ret[2] = "None"
\* C15: cancelling a scan stops the submission of new work, lets the work in
\* flight drain, and returns the results collected so far.
C15_CancelReturnsResults ==
    cause = "interrupt" =>
        /\ spc # "submit"
        /\ spc = "failed" =>
              /\ \A i \in Stocks : task[i] # "running"
              /\ Len(results) > 0 => shown = "success"

\* C16: a scan over an empty universe fails as a configuration error before
\* any work is submitted, and what it reports differs from the report of a
\* scan that ran and found no match.
C16_EmptyUniverseIsAnError ==
    (ScanEnded /\ cause = "" /\ total_stocks = 0) =>
        /\ Submitted = {}
        /\ shown \notin {"success", "warning", "info"}
\* ---- the run-gain filter: what the claims speak of ----
Last7 == [i \in 1..7 |-> Multiplier(LastRows(df, 7)[i])]
Last7Yang == Len(df) >= 7 /\ AllYang(Last7)
ShorterPass ==
    /\ ~OverLimit(LastRows(Last7, 6), 200)
    /\ ~OverLimit(LastRows(Last7, 5), 150)

\* C17 as amended: a stock whose last 7 days are all strictly up and whose
\* compounded gain over them exceeds 25% is rejected, also when the 6-day and
\* 5-day windows pass their own caps (20%, 15%); the pairs are tried longest
\* first and the first that fires decides, so the 7-day pair is the one that
\* rejects.
C17_SevenDayCapRejects ==
    (ypc = "checked" /\ Last7Yang /\ OverLimit(Last7, 250)) =>
        /\ ~verdict.pass
        /\ verdict.fired = 7
        /\ ps_ret = "None"

\* checked: 7 rising days gaining over 25% of which the last 6 gain under 20%
\* and the last 5 under 15%
C17_Witness ==
    /\ ypc = "checked" /\ Last7Yang /\ OverLimit(Last7, 250) /\ ShorterPass
    /\ ~verdict.pass /\ verdict.fired = 7

\* C17: the same with the cap for length 7 at 22.5%
C17_Original ==
    (ypc = "checked" /\ Last7Yang /\ OverLimit(Last7, 225)) =>
        /\ ~verdict.pass
        /\ ps_ret = "None"
\* ---- the two counters of analyze_strategy ----
\* the counter a stage is not waiting on
OtherCount(k, red, green) == IF Awaited(k) = Red THEN green ELSE red

\* C18: in stages 1-6 a row leaves the counter the stage is not waiting on
\* unchanged, on every row including the rows that emit a signal.
C18_Original ==
    [][(RowStep /\ stage \in 1..6) =>
         OtherCount(stage, red_count', green_count')
             = OtherCount(stage, red_count, green_count)]_vars

\* C18 as amended: in stages 1-6 a row that emits no signal changes only the
\* counter the stage waits on (one more on a row of the awaited colour, back
\* to 0 on any other row) and leaves the other counter unchanged; a row that
\* emits a signal counts the awaited counter up without resetting it and sets
\* the other counter, the one the next stage waits on, to 0, except the last
\* buy (stage 6 to 7), which leaves it unchanged.
C18_OnlyAwaitedCounterMoves ==
    [][(RowStep /\ stage \in 1..6) =>
         LET a  == AwaitedCount(stage, red_count, green_count)
             a2 == AwaitedCount(stage, red_count', green_count')
             o  == OtherCount(stage, red_count, green_count)
             o2 == OtherCount(stage, red_count', green_count')
         IN  IF last_row'.signal = NoSignal
             THEN /\ o2 = o
                  /\ a2 = (IF last_row'.color = Awaited(stage) THEN a + 1 ELSE 0)
             ELSE /\ a2 = a + 1
                  /\ o2 = (IF stage = 6 THEN o ELSE 0)]_vars

\* the second buy has just set red_count, left at 3 by the first sell, to 0
C18_Witness ==
    /\ Walking /\ last_row.signal = Buy /\ last_row.stage = 3
    /\ red_count = 0 /\ green_count = 2

\* C19: every record has position hold exactly when its stage is odd and
\* position empty exactly when its stage is even.
C19_PositionIsStageParity ==
    (Walking /\ len_signals >= 1) =>
        /\ last_row.position \in {Hold, Empty}
        /\ last_row.position = Hold <=> last_row.stage \in {1, 3, 5, 7}
        /\ last_row.position = Empty <=> last_row.stage \in {0, 2, 4, 6}

\* a record of stage 4, after the second sell
C19_Witness ==
    /\ Walking /\ len_signals >= 1
    /\ last_row.stage = 4 /\ last_row.position = Empty /\ last_row.signal = Sell

\* C20: from row to row the stage stays or rises by 1, a signal is emitted on
\* exactly the rows where it rises, so the signals of a series number at most
\* 7, as many as the stage, and alternate buy, sell, buy, ... from a buy.
C20_StageLadder ==
    /\ [](Walking =>
            /\ n_sig = stage /\ n_sig <= 7
            /\ last_sig = (IF n_sig = 0 THEN NoSignal
                           ELSE IF n_sig % 2 = 1 THEN Buy ELSE Sell))
    /\ [][RowStep =>
            /\ stage' \in {stage, stage + 1}
            /\ last_row'.stage = stage'
            /\ last_row'.signal # NoSignal <=> stage' = stage + 1
            /\ last_row'.signal # NoSignal =>
                   last_row'.signal = (IF last_sig = Buy THEN Sell ELSE Buy)]_vars

\* the seventh signal, the last buy, has been emitted
C20_Witness ==
    /\ Walking /\ stage = 7 /\ n_sig = 7
    /\ last_row.signal = Buy /\ last_sig = Buy
\* ---- process_single_stock: what the claims speak of ----
\* a prediction has been made of the series walked
Predicted == pc = "predicted" \/ (pc = "processed" /\ row_out.kind = "rec")

\* the most the countdown of a stage can be
MostDays(k) == IF k = 0 THEN 14 ELSE Threshold(k)

\* C21: every record of stage 1-6 has its awaited counter strictly below the
\* threshold of the stage (at most 2, 1, 2, 6, 6, 13); the countdown
\* generate_prediction returns is between 1 and the threshold in stages 0-6
\* and 0 exactly in stage 7; the row of a scan shows "done" in place of a
\* number of days exactly when the stage is 7.
C21_CountdownRange ==
    /\ (Walking /\ len_signals >= 1 /\ last_row.stage \in 1..6) =>
           AwaitedCount(last_row.stage, last_row.red_count, last_row.green_count)
               \in 0..(Threshold(last_row.stage) - 1)
    /\ Predicted =>
           /\ prediction.stage = last_row.stage
           /\ prediction.stage \in 0..6 =>
                  prediction.countdown \in 1..MostDays(prediction.stage)
           /\ prediction.countdown = 0 <=> prediction.stage = 7
    /\ row_out.kind = "rec" =>
           /\ row_out.stage = prediction.stage
           /\ row_out.countdown.text = "done" <=> row_out.stage = 7
           /\ row_out.countdown.text = "days" <=>
                  (row_out.stage \in 0..6 /\ row_out.countdown.n = prediction.countdown)

\* a scan returned a stock in stage 6 whose series ends on the 13th falling
\* row in a row: one day is shown
C21_Witness ==
    /\ pc = "processed" /\ row_out.kind = "rec" /\ row_out.stage = 6
    /\ last_row.green_count = 13 /\ last_row.color = Green
    /\ row_out.countdown = [text |-> "days", n |-> 1]
\* the rows of the frame process_single_stock fetched
FrameLen == IF df_stock.kind = "short" THEN df_stock.n ELSE len_signals

\* C22: process_single_stock returns None for every fetched series of fewer
\* than 15 rows whatever the filter is, so every record a scan returns has a
\* last stage of 1 or more and never the stage 0 prediction "first buy";
\* analyze_strategy itself, given exactly 14 rows, emits a buy on row 14.
C22_ShortSeriesNeverScanned ==
    /\ (pc = "processed" /\ df_stock.kind \in {"short", "frame"} /\ numeric
            /\ FrameLen < 15) =>
           row_out = NoOutput
    /\ row_out.kind = "rec" =>
           /\ via = "scan" /\ len_signals >= 15
           /\ filter_signal \in Filters
           /\ last_row.stage >= 1 /\ row_out.stage >= 1
           /\ row_out.next_signal # "first_buy"
           /\ prediction.next_signal # "first_buy"
    /\ (via = "direct" /\ Walking /\ len_signals = 14) =>
           (last_row.signal = Buy /\ last_row.stage = 1)

\* a stock with 14 rows of history was fetched and dropped
C22_Witness ==
    /\ pc = "processed" /\ via = "scan"
    /\ df_stock = [kind |-> "short", n |-> 14]
    /\ row_out = NoOutput /\ len_signals = 0
\* ---- the score of yz.py: what the claim speaks of ----
\* C23: every record process_stock returns has the seat level "core x2+", two
\* or more core seats among its buyers, and a score of 65 or 73; a stock with
\* one core seat or with attention seats only is never returned, whatever its
\* latest change and turnover are.
C23_OnlyTwoCoreSeatsReturned ==
    /\ ps_ret = "rec" =>
           /\ level = "core2" /\ seats.core >= 2
           /\ score \in {65, 73}
    /\ (ypc = "returned" /\ level \in {"core", "att2", "att"}) =>
           /\ seats.core < 2
           /\ score <= 63
           /\ ps_ret = "None"

\* a stock with two core seats, a limit-up and a turnover of 15% is returned
\* with 65
C23_Witness ==
    /\ ypc = "returned" /\ ps_ret = "rec" /\ level = "core2" /\ score = 65
    /\ df[Len(df)] = 10 /\ verdict.pass
====
